---- MODULE Spec2Model ----
\* Content-generation orchestration of Prachar.ai (ContentGenie design):
\* handleContentGeneration fans one prompt out to the image, video and text
\* generator Lambdas, waits for all of them or for the shared timeout,
\* aggregates their outcomes into one response and records the outcome in the
\* project record (src/design.md, "Components and Interfaces" and
\* "Error Handling").
EXTENDS Integers, Sequences, FiniteSets, TLC

VARIABLES
    pc,         \* position of handleContentGeneration: "idle", "waiting", "done"
    request,    \* the ContentGenerationRequest being handled
    projectId,  \* the projectId generateUUID() gave this request
    dynamoDB,   \* metadata store: projectId -> project record
    s3,         \* object store: the set of keys putObject wrote
    img,        \* the Image Generator Lambda invocation
    vid,        \* the Video Generator Lambda invocation
    txt,        \* the Text Generator Lambda invocation
    arrived,    \* components whose promise settled before awaitAll returned, in settle order
    results,    \* what awaitAll returned
    response,   \* what handleContentGeneration returned
    log,        \* the errors handleContentGeneration logged, in order
    policy,     \* a retry loop run on its own: its kind, the outcomes to come, its state
    calls,      \* concurrent handleContentGeneration calls on one table: position, projectId, writes issued
    home,       \* the dashboard component Home: its state hooks and the fetches in flight
    sim,        \* a call of generateMarketingCopy in simulation mode: its timer and its promise
    flow        \* one handleContentGeneration call followed statement by statement

vars == <<pc, request, projectId, dynamoDB, s3, img, vid, txt, arrived, results, response, log, policy, calls, home, sim, flow>>

\* The variables of one handleContentGeneration call.
requestVars == <<pc, request, projectId, dynamoDB, s3, img, vid, txt, arrived, results, response, log>>

-----------------------------------------------------------------------------
\* Bounds of the model.

\* Longest prompt drawn.
MaxPromptLen == 3
\* Most words in one hashtag response of the text model.
MaxWords == 1
\* Most invokeModel outcomes drawn for one retry loop.
MaxOutcomes == 4

-----------------------------------------------------------------------------
\* Program constants.

\* if request.prompt.length < 3
MinPromptLength == 3
\* count: 3 in the ImageGeneratorLambda invocation
ImageCount == 3
\* while retries < 3
MaxRetries == 3
\* if retries >= 2: return error (generateImages, catch error)
ImageOtherErrorLimit == 2
\* Backoff: 2^retry * 100ms
BackoffBaseMs == 100
\* platforms arrays hold up to two entries:
\* fc.array(fc.constantFrom('instagram', 'linkedin'), { minLength: 1, maxLength: 2 })
MaxPlatforms == 2
\* video_length: randomInt(3, 10)
MinVideoLength == 3
MaxVideoLength == 10

None == "none"

PromptChars == {"a"}
Platforms == {"instagram", "linkedin"}
UserIds == {"user-123"}
ProjectIds == {"p1"}
Components == <<"image", "video", "text">>

\* Errors bedrockClient.invokeModel can raise: a rate limit (429), another
\* retryable service error (503) and a non-retryable one (401).
BedrockErrors == {"RateLimitError", "ServiceUnavailable", "AuthenticationError"}
RetryableErrors == {"RateLimitError", "ServiceUnavailable"}

SeqsUpTo(S, n) == UNION {[1..k -> S] : k \in 0..n}
Range(s) == {s[k] : k \in 1..Len(s)}

Prompts == SeqsUpTo(PromptChars, MaxPromptLen)
PlatformLists == SeqsUpTo(Platforms, MaxPlatforms)
Requests == [prompt : Prompts, userId : UserIds, platforms : PlatformLists]

-----------------------------------------------------------------------------
\* Validation.

validatePromptOffByOne(prompt) ==
    [valid |-> Len(prompt) > MinPromptLength]

\* if request.prompt.length < 3: return error("Prompt too short")
validatePrompt(prompt) ==
    [valid |-> ~(Len(prompt) < MinPromptLength)]

\* The error response of a rejected request.
ValidationError == [kind |-> "error", code |-> "VALIDATION_ERROR", retryable |-> FALSE]

-----------------------------------------------------------------------------
\* Retry backoff.

\* Backoff: 2^retry * 100ms
exponentialBackoff(retries) == (2 ^ retries) * BackoffBaseMs

\* What one bedrockClient.invokeModel call can do: return, or raise.
Outcomes == {"ok"} \cup BedrockErrors
OutcomeSeqs == SeqsUpTo(Outcomes, MaxOutcomes)

\* A retry loop as it starts (retries = 0) and as it goes: the calls made,
\* the sleeps taken, and how it was left ("break", "exhausted": the while
\* condition failed, "error": return error).
LoopStart == [retries |-> 0, calls |-> 0, sleeps |-> <<>>, exit |-> "running", err |-> None]

\* The loop ran to its exit on exactly these outcomes.
RanOn(loop, outs) == loop.exit # "running" /\ loop.calls = Len(outs)

-----------------------------------------------------------------------------
\* Image Generator Lambda (generateImages).

IdleTask == [st |-> "idle"]

\* function getPlatformDimensions(platform)
getPlatformDimensions(platform) ==
    IF platform = "instagram"
        THEN [width |-> 1080, height |-> 1080]
        ELSE [width |-> 1200, height |-> 627]

\* s3Key = `users/${userId}/projects/${projectId}/images/${platform}_${i}.png`
ImageKey(userId, pid, platform, i) ==
    <<"users", userId, "projects", pid, "images", platform, i, ".png">>

\* thumbnailKey = `${s3Key}_thumb.png`
ThumbnailKey(s3Key) == Append(s3Key, "_thumb.png")

\* s3.generatePresignedUrl(key, expiresIn=3600)
generatePresignedUrl(key) == <<"url", key>>

\* The state of generateImages when the Lambda is invoked: images = [],
\* the loops at i = 0 and the first platform.
ImageStart(req, pid) ==
    [st |-> "running", userId |-> req.userId, projectId |-> pid,
     platforms |-> req.platforms, i |-> 0, p |-> 1,
     images |-> <<>>, imageData |-> "undefined", err |-> None]

ImageLoopStepUncounted(loop, outcome) ==
    LET called == [loop EXCEPT !.calls = loop.calls + 1]
    IN  IF outcome = "ok"
            THEN [called EXCEPT !.exit = "break"]
        ELSE IF outcome = "RateLimitError"
            THEN [called EXCEPT
                    !.retries = loop.retries + 1,
                    !.sleeps = Append(loop.sleeps, exponentialBackoff(loop.retries + 1)),
                    !.err = outcome,
                    !.exit = IF loop.retries + 1 < MaxRetries THEN "running" ELSE "exhausted"]
        ELSE IF loop.retries >= ImageOtherErrorLimit
            THEN [called EXCEPT !.err = outcome, !.exit = "error"]
        ELSE [called EXCEPT !.err = outcome]

\* One pass of "while retries < 3" in generateImages on the outcome of its
\* invokeModel call:
\*   returned: break
\*   catch RateLimitError: retries++; sleep(exponentialBackoff(retries))
\*   catch error: log(error); if retries >= 2: return error; retries++
ImageLoopStep(loop, outcome) ==
    LET called == [loop EXCEPT !.calls = loop.calls + 1]
    IN  IF outcome = "ok"
            THEN [called EXCEPT !.exit = "break"]
        ELSE IF outcome = "RateLimitError"
            THEN [called EXCEPT
                    !.retries = loop.retries + 1,
                    !.sleeps = Append(loop.sleeps, exponentialBackoff(loop.retries + 1)),
                    !.err = outcome,
                    !.exit = IF loop.retries + 1 < MaxRetries THEN "running" ELSE "exhausted"]
        ELSE IF loop.retries >= ImageOtherErrorLimit
            THEN [called EXCEPT !.err = outcome, !.exit = "error"]
        ELSE [called EXCEPT !.retries = loop.retries + 1, !.err = outcome]

RECURSIVE ImageRetryFrom(_, _)
ImageRetryFrom(loop, outs) ==
    IF outs = <<>> \/ loop.exit # "running"
        THEN loop
        ELSE ImageRetryFrom(ImageLoopStep(loop, Head(outs)), Tail(outs))

\* The retry loop of generateImages on the outcomes of its successive calls.
ImageRetryLoop(outs) == ImageRetryFrom(LoopStart, outs)

\* Every way the retry loop of generateImages can run.
ImageLoops ==
    {ImageRetryLoop(outs) : outs \in {o \in OutcomeSeqs : RanOn(ImageRetryLoop(o), o)}}

\* The image asset appended after the two putObject calls.
ImageAsset(t) ==
    LET platform == t.platforms[t.p]
        s3Key == ImageKey(t.userId, t.projectId, platform, t.i)
    IN  [assetId |-> <<"image", Len(t.images) + 1>>,
         s3Key |-> s3Key,
         s3Url |-> generatePresignedUrl(s3Key),
         thumbnailUrl |-> generatePresignedUrl(ThumbnailKey(s3Key)),
         dimensions |-> getPlatformDimensions(platform),
         platform |-> platform]

\* The keys the two putObject calls of one iteration write.
ImagePutKeys(t) ==
    LET s3Key == ImageKey(t.userId, t.projectId, t.platforms[t.p], t.i)
    IN  {s3Key, ThumbnailKey(s3Key)}

\* The statements after the retry loop (store, thumbnail, append), then the
\* next iteration of "for i in range(count): for platform in platforms", or
\* "return images" after the last one.
ImageStoreAndAdvance(t) ==
    LET appended == Append(t.images, ImageAsset(t))
        lastP == t.p = Len(t.platforms)
        lastI == t.i = ImageCount - 1
    IN  IF lastP /\ lastI
            THEN [t EXCEPT !.st = "done", !.images = appended]
            ELSE [t EXCEPT !.images = appended,
                           !.p = IF lastP THEN 1 ELSE t.p + 1,
                           !.i = IF lastP THEN t.i + 1 ELSE t.i]

\* return error: the invocation ends with the error, its images are gone.
ImageFailure(t, e) ==
    [st |-> "failed", err |-> e, images |-> <<>>]

\* One iteration of the loops of generateImages, given how its retry loop
\* was left. After break imageData is the new image; when the while
\* condition failed instead, the statements after the loop run with whatever
\* imageData holds.
ImageIteration(t, loop) ==
    IF loop.exit = "error" THEN ImageFailure(t, loop.err)
    ELSE IF loop.exit = "break" THEN ImageStoreAndAdvance([t EXCEPT !.imageData = "set"])
    ELSE ImageStoreAndAdvance(t)

\* How a retry loop was left, which is all the code after it depends on.
LoopExit(loop) ==
    [exit |-> loop.exit, err |-> IF loop.exit = "error" THEN loop.err ELSE None]

ImageExits == {LoopExit(loop) : loop \in ImageLoops}

\* The exits of the retry loops of one generateImages run with n iterations
\* to make: n exits, or fewer when the last one is return error.
ImageExitSeqs ==
    [n \in 0..(ImageCount * MaxPlatforms) |->
        {exits \in SeqsUpTo(ImageExits, n) :
            /\ \A k \in 1..(Len(exits) - 1) : exits[k].exit # "error"
            /\ \/ Len(exits) = n /\ (n > 0 => exits[n].exit # "error")
               \/ Len(exits) > 0 /\ exits[Len(exits)].exit = "error"}]

\* A run of generateImages: the invocation and the keys it has put.
RECURSIVE ImageRunFrom(_, _)
ImageRunFrom(run, exits) ==
    IF exits = <<>> \/ run.task.st # "running"
        THEN run
        ELSE ImageRunFrom(
                [task |-> ImageIteration(run.task, Head(exits)),
                 puts |-> IF Head(exits).exit = "error"
                             THEN run.puts
                             ELSE run.puts \cup ImagePutKeys(run.task)],
                Tail(exits))

\* function generateImages(prompt, projectId, count, platforms), given the
\* exits of its retry loops; with no platform no loop body runs and the
\* empty images list is returned.
generateImages(t, exits) ==
    IF t.platforms = <<>>
        THEN [task |-> [t EXCEPT !.st = "done"], puts |-> {}]
        ELSE ImageRunFrom([task |-> t, puts |-> {}], exits)

-----------------------------------------------------------------------------
\* Video Generator Lambda (generateVideo).

\* s3Key = `users/${userId}/projects/${projectId}/videos/video_0.mp4`
VideoKey(userId, pid) ==
    <<"users", userId, "projects", pid, "videos", "video_0.mp4">>

\* The durations extractDuration(videoData) is drawn from: the two ends of
\* the requested video_length range.
VideoDurations == {MinVideoLength, MaxVideoLength}

VideoStart(req, pid) ==
    [st |-> "running", userId |-> req.userId, projectId |-> pid,
     video |-> None, err |-> None]

\* The asset generateVideo returns after putObject.
VideoAsset(t, duration) ==
    LET s3Key == VideoKey(t.userId, t.projectId)
    IN  [assetId |-> <<"video", 1>>,
         s3Key |-> s3Key,
         s3Url |-> generatePresignedUrl(s3Key),
         duration |-> duration,
         format |-> "mp4"]

\* One pass of "while retries < 3" in generateVideo and in callClaude:
\*   returned: break (callClaude: return the text)
\*   catch error: retries++; if retries >= 3: return error;
\*                sleep(exponentialBackoff(retries))
RetryLoopStep(loop, outcome) ==
    LET called == [loop EXCEPT !.calls = loop.calls + 1]
    IN  IF outcome = "ok"
            THEN [called EXCEPT !.exit = "break"]
        ELSE IF loop.retries + 1 >= MaxRetries
            THEN [called EXCEPT !.retries = loop.retries + 1, !.err = outcome,
                                !.exit = "error"]
        ELSE [called EXCEPT
                !.retries = loop.retries + 1,
                !.err = outcome,
                !.sleeps = Append(loop.sleeps, exponentialBackoff(loop.retries + 1))]

RECURSIVE RetryFrom(_, _)
RetryFrom(loop, outs) ==
    IF outs = <<>> \/ loop.exit # "running"
        THEN loop
        ELSE RetryFrom(RetryLoopStep(loop, Head(outs)), Tail(outs))

\* The retry loop of generateVideo on the outcomes of its successive calls.
VideoRetryLoop(outs) == RetryFrom(LoopStart, outs)

\* Every way the retry loop of generateVideo can run.
VideoLoops ==
    {VideoRetryLoop(outs) : outs \in {o \in OutcomeSeqs : RanOn(VideoRetryLoop(o), o)}}

\* return error
VideoFailure(t, e) == [st |-> "failed", err |-> e, video |-> None]

\* function generateVideo(prompt, projectId), given how its retry loop was
\* left: after break the video is stored and the asset returned.
generateVideo(t, loop, duration) ==
    IF loop.exit = "error"
        THEN VideoFailure(t, loop.err)
        ELSE [t EXCEPT !.st = "done", !.video = VideoAsset(t, duration)]

-----------------------------------------------------------------------------
\* Text Generator Lambda (generateText, callClaude, parseHashtags).

\* What Claude answers to a caption prompt: the three captions asked for, in
\* one text.
CaptionResponses == {<<"caption", "caption", "caption">>}

\* What Claude answers to a hashtag prompt: words, some starting with "#".
HashtagWords == {"#tag", "word"}
HashtagResponses == SeqsUpTo(HashtagWords, MaxWords)

IsHashtagWord(word) == word = "#tag"

\* function getPlatformConstraints(platform): minHashtags, maxHashtags.
getPlatformConstraints(platform) ==
    IF platform = "instagram"
        THEN [minHashtags |-> 5, maxHashtags |-> 10]
        ELSE [minHashtags |-> 3, maxHashtags |-> 5]

\* function parseHashtags(text): the words that start with "#", in order.
parseHashtags(text) == SelectSeq(text, IsHashtagWord)

\* The values callClaude returns: the text of a response (return
\* response.content[0].text), or the error (return error).
TextValue(text) == [kind |-> "text", text |-> text]
ErrorValue == [kind |-> "error", text |-> <<>>]

\* captions = {}, hashtags = {}: a dictionary is a function on the keys set so far.
EmptyDict == [k \in {} |-> None]
DictPut(d, k, v) == [x \in DOMAIN d \cup {k} |-> IF x = k THEN v ELSE d[x]]

TextStart(req) ==
    [st |-> "running", platforms |-> req.platforms, p |-> 1,
     captions |-> EmptyDict, hashtags |-> EmptyDict, err |-> None]

\* The retry loop of callClaude on the outcomes of its successive calls.
ClaudeRetryLoop(outs) == RetryFrom(LoopStart, outs)

\* Every way the retry loop of callClaude can run.
ClaudeLoops ==
    {ClaudeRetryLoop(outs) : outs \in {o \in OutcomeSeqs : RanOn(ClaudeRetryLoop(o), o)}}

\* What callClaude returns: the text of the response, or the error.
callClaude(loop, text) ==
    IF loop.exit = "break" THEN TextValue(text) ELSE ErrorValue

CaptionReturns == {callClaude(loop, r) : loop \in ClaudeLoops, r \in CaptionResponses}
HashtagReturns == {callClaude(loop, r) : loop \in ClaudeLoops, r \in HashtagResponses}

\* What one iteration of "for platform in platforms" gets from its two
\* callClaude calls. parseHashtags(error) calls text.split() on a value that
\* is no text: it either raises or finds no word.
PlatformDraws ==
    {d \in [caption : CaptionReturns, hashtag : HashtagReturns, raises : BOOLEAN] :
        d.raises => d.hashtag = ErrorValue}

\* parseHashtags raised: the invocation ends with an unhandled exception.
TextThrown(t) ==
    [st |-> "failed", err |-> "SYSTEM_ERROR", captions |-> EmptyDict, hashtags |-> EmptyDict]

\* One iteration of "for platform in platforms" in generateText:
\* captions[platform] = callClaude(...),
\* hashtags[platform] = parseHashtags(callClaude(...)), then the next
\* platform, or return {captions, hashtags} after the last one.
TextIteration(t, d) ==
    LET platform == t.platforms[t.p]
        stored == [t EXCEPT
                    !.captions = DictPut(t.captions, platform, d.caption),
                    !.hashtags = DictPut(t.hashtags, platform,
                        IF d.hashtag = ErrorValue THEN <<>> ELSE parseHashtags(d.hashtag.text))]
    IN  IF d.raises THEN TextThrown(t)
        ELSE IF t.p = Len(t.platforms) THEN [stored EXCEPT !.st = "done"]
        ELSE [stored EXCEPT !.p = t.p + 1]

\* The draws of one generateText run over n platforms: n draws, or fewer
\* when the last one raises.
TextDrawSeqs ==
    [n \in 0..MaxPlatforms |->
        {ds \in SeqsUpTo(PlatformDraws, n) :
            /\ \A k \in 1..(Len(ds) - 1) : ~ds[k].raises
            /\ \/ Len(ds) = n /\ (n > 0 => ~ds[n].raises)
               \/ Len(ds) > 0 /\ ds[Len(ds)].raises}]

RECURSIVE TextRunFrom(_, _)
TextRunFrom(t, ds) ==
    IF ds = <<>> \/ t.st # "running"
        THEN t
        ELSE TextRunFrom(TextIteration(t, Head(ds)), Tail(ds))

\* function generateText(prompt, platforms), given what its callClaude calls
\* returned; with no platform it returns {captions: {}, hashtags: {}}.
generateText(t, ds) ==
    IF t.platforms = <<>> THEN [t EXCEPT !.st = "done"] ELSE TextRunFrom(t, ds)

-----------------------------------------------------------------------------
\* What a settled invocation hands to the orchestrator.

\* The assets of a text result as successfulAssets.extend(results.text.data)
\* counts them: one caption entry and one hashtag entry per platform key.
TextAssets(data) ==
    LET keys(d) == {k \in Platforms : k \in DOMAIN d}
        entries(kind, d) ==
            IF "instagram" \in keys(d) /\ "linkedin" \in keys(d)
                THEN << [type |-> kind, platform |-> "instagram", content |-> d["instagram"]],
                        [type |-> kind, platform |-> "linkedin", content |-> d["linkedin"]] >>
            ELSE IF keys(d) = {} THEN <<>>
            ELSE LET k == CHOOSE x \in keys(d) : TRUE
                 IN  << [type |-> kind, platform |-> k, content |-> d[k]] >>
    IN  entries("caption", data.captions) \o entries("hashtag", data.hashtags)

Succeeded(data) == [success |-> TRUE, data |-> data, error |-> None]
Failed(code) == [success |-> FALSE, data |-> <<>>, error |-> code]

\* The outcome of a settled invocation: its return value, or the error it
\* returned or raised.
ImageOutcome(t) == IF t.st = "done" THEN Succeeded(t.images) ELSE Failed(t.err)
VideoOutcome(t) == IF t.st = "done" THEN Succeeded(<<t.video>>) ELSE Failed(t.err)
TextOutcome(t) ==
    IF t.st = "done"
        THEN Succeeded([captions |-> t.captions, hashtags |-> t.hashtags])
        ELSE Failed(t.err)

Settled(t) == t.st \in {"done", "failed"}

-----------------------------------------------------------------------------
\* Content Orchestrator Lambda (handleContentGeneration).

\* The outcome awaitAll reports for a promise that had not settled when the
\* 30-second timeout elapsed.
TimedOut == Failed("TIMEOUT_ERROR")

\* results = awaitAll([imagePromise, videoPromise, textPromise], timeout=30s):
\* the outcome of every promise that settled before awaitAll returned, and
\* TimedOut for the others.
awaitAll(settled, imageTask, videoTask, textTask) ==
    [images |-> IF "image" \in Range(settled) THEN ImageOutcome(imageTask) ELSE TimedOut,
     videos |-> IF "video" \in Range(settled) THEN VideoOutcome(videoTask) ELSE TimedOut,
     text   |-> IF "text" \in Range(settled) THEN TextOutcome(textTask) ELSE TimedOut]

\* The successful assets and the failed components of handlePartialFailure.
SuccessfulAssets(res) ==
    (IF res.images.success THEN res.images.data ELSE <<>>)
    \o (IF res.videos.success THEN res.videos.data ELSE <<>>)
    \o (IF res.text.success THEN TextAssets(res.text.data) ELSE <<>>)

FailedComponents(res) ==
    (IF res.images.success THEN <<>> ELSE <<"images">>)
    \o (IF res.videos.success THEN <<>> ELSE <<"videos">>)
    \o (IF res.text.success THEN <<>> ELSE <<"captions and hashtags">>)

handlePartialFailureNonStrict(res) ==
    IF Len(SuccessfulAssets(res)) >= 0
        THEN [status |-> "partial", assets |-> SuccessfulAssets(res),
              retryableComponents |-> FailedComponents(res)]
        ELSE [status |-> "failed",
              message |-> "Unable to generate any content. Please try again."]

\* function handlePartialFailure(results)
handlePartialFailure(res) ==
    LET successfulAssets == SuccessfulAssets(res)
        failedComponents == FailedComponents(res)
    IN  IF Len(successfulAssets) > 0
            THEN [status |-> "partial", assets |-> successfulAssets,
                  retryableComponents |-> failedComponents]
            ELSE [status |-> "failed",
                  message |-> "Unable to generate any content. Please try again."]

determineStatusIgnoringText(res) ==
    IF res.images.success /\ res.videos.success
        THEN "complete"
        ELSE handlePartialFailure(res).status

\* determineStatus(results): "complete" when every generator succeeded,
\* otherwise the status of handlePartialFailure.
determineStatus(res) ==
    IF res.images.success /\ res.videos.success /\ res.text.success
        THEN "complete"
        ELSE handlePartialFailure(res).status

\* The result of component c within results.
ResultOf(res, c) ==
    IF c = "image" THEN res.images ELSE IF c = "video" THEN res.videos ELSE res.text

GenerationError(c, code) == [component |-> c, errorCode |-> code]

ErrorsIn(res, order) ==
    LET failedIn == SelectSeq(order, LAMBDA c : ~ResultOf(res, c).success)
    IN  [k \in 1..Len(failedIn) |-> GenerationError(failedIn[k], ResultOf(res, failedIn[k]).error)]

collectErrorsInSettleOrder(res, settled) ==
    ErrorsIn(res, settled \o SelectSeq(Components, LAMBDA c : c \notin Range(settled)))

\* collectErrors(results): one GenerationError per failed component, in the
\* order image, video, text.
collectErrors(res, settled) == ErrorsIn(res, Components)

ResponseVideosDropped(res) == <<>>

\* images: results.images || []
ResponseImages(res) == IF res.images.success THEN res.images.data ELSE <<>>
\* videos: results.videos || []
ResponseVideos(res) == IF res.videos.success THEN res.videos.data ELSE <<>>
\* captions: results.captions || {}
ResponseCaptions(res) == IF res.text.success THEN res.text.data.captions ELSE EmptyDict
\* hashtags: results.hashtags || {}
ResponseHashtags(res) == IF res.text.success THEN res.text.data.hashtags ELSE EmptyDict

\* response = { projectId, images, videos, captions, hashtags, status, errors }
BuildResponse(pid, res, settled) ==
    [kind |-> "result",
     projectId |-> pid,
     images |-> ResponseImages(res),
     videos |-> ResponseVideos(res),
     captions |-> ResponseCaptions(res),
     hashtags |-> ResponseHashtags(res),
     status |-> determineStatus(res),
     errors |-> collectErrors(res, settled)]

\* Records of the metadata store are functions from field names.
Merge(old, new) ==
    [k \in DOMAIN old \cup DOMAIN new |-> IF k \in DOMAIN new THEN new[k] ELSE old[k]]

\* project = { projectId, userId, prompt, createdAt, status: "generating" }
NewProject(req, pid) ==
    [projectId |-> pid, userId |-> req.userId, prompt |-> req.prompt,
     createdAt |-> "createdAt", status |-> "generating"]

\* dynamoDB.putItem(project)
putItem(db, project) ==
    [k \in DOMAIN db \cup {project.projectId} |->
        IF k = project.projectId THEN project ELSE db[k]]

updateItemReplacing(db, pid, fields) ==
    [k \in DOMAIN db \cup {pid} |-> IF k = pid THEN fields ELSE db[k]]

\* dynamoDB.updateItem(projectId, fields): sets the fields on the item,
\* creating the item when the key is absent.
updateItem(db, pid, fields) ==
    [k \in DOMAIN db \cup {pid} |->
        IF k = pid
            THEN Merge(IF pid \in DOMAIN db THEN db[pid] ELSE [projectId |-> pid], fields)
            ELSE db[k]]

FinalFieldsNoCompletedAt(resp) ==
    [status |-> resp.status, assets |-> resp]

\* dynamoDB.updateItem(projectId, {status, assets: response, completedAt})
FinalFields(resp) ==
    [status |-> resp.status, assets |-> resp, completedAt |-> "completedAt"]

NoRequest == [prompt |-> <<>>, userId |-> None, platforms |-> <<>>]
NoResponse == [kind |-> "none"]
NoResults == [images |-> Failed(None), videos |-> Failed(None), text |-> Failed(None)]
EmptyDB == [k \in {} |-> None]

\* If DynamoDB write fails: Log error but still return generated content.
PutItemFailed == "putItem failed"
UpdateItemFailed == "updateItem failed"

CreateFailureRejects(db, req, pid, putOk) ==
    IF ~validatePrompt(req.prompt).valid \/ ~putOk
        THEN [rejected |-> TRUE, db |-> db]
        ELSE [rejected |-> FALSE, db |-> putItem(db, NewProject(req, pid))]

CreateBeforeValidate(db, req, pid, putOk) ==
    [rejected |-> ~validatePrompt(req.prompt).valid,
     db |-> IF putOk THEN putItem(db, NewProject(req, pid)) ELSE db]

\* The head of handleContentGeneration: a prompt shorter than 3 characters
\* returns the error before anything is written; otherwise the project
\* record is put (putOk: whether the write succeeded; a failed write is
\* logged and generation proceeds).
ValidateAndCreate(db, req, pid, putOk) ==
    IF ~validatePrompt(req.prompt).valid
        THEN [rejected |-> TRUE, db |-> db]
        ELSE [rejected |-> FALSE,
              db |-> IF putOk THEN putItem(db, NewProject(req, pid)) ELSE db]

-----------------------------------------------------------------------------
\* The state machine.

\* The callers of concurrent handleContentGeneration calls.
Callers == {"first", "second"}

\* No concurrent call has started.
NoCall == [pc |-> "idle", request |-> NoRequest, projectId |-> None, writes |-> <<>>]
NoCalls == [c \in Callers |-> NoCall]

\* The dashboard as first rendered: useState('Retail'), useState(''),
\* useState(''), useState(false), useState(''); no fetch made.
HomeStart ==
    [businessType |-> "Retail", topic |-> <<>>, result |-> "", loading |-> FALSE,
     error |-> "", fetches |-> {}, made |-> 0, applied |-> 0]

\* generateMarketingCopy has not been called.
NoSim == [pc |-> "idle"]

\* handleContentGeneration has not been called.
NoFlow == [pc |-> "idle"]

\* No retry loop is run on its own.
NoPolicy == [kind |-> None, outs |-> <<>>, seen |-> <<>>, loop |-> LoopStart]

Init ==
    /\ policy = NoPolicy
    /\ calls = NoCalls
    /\ home = HomeStart
    /\ sim = NoSim
    /\ flow = NoFlow
    /\ pc = "idle"
    /\ request = NoRequest
    /\ projectId = None
    /\ dynamoDB = EmptyDB
    /\ s3 = {}
    /\ img = IdleTask
    /\ vid = IdleTask
    /\ txt = IdleTask
    /\ arrived = <<>>
    /\ results = NoResults
    /\ response = NoResponse
    /\ log = <<>>

\* handleContentGeneration(request) up to awaitAll: validation, the project
\* record, the three asynchronous invocations.
HandleContentGeneration(req) ==
    /\ pc = "idle"
    /\ \E pid \in ProjectIds, putOk \in BOOLEAN :
        LET step == ValidateAndCreate(dynamoDB, req, pid, putOk)
        IN  /\ request' = req
            /\ dynamoDB' = step.db
            /\ log' = IF validatePrompt(req.prompt).valid /\ ~putOk
                          THEN Append(log, PutItemFailed)
                          ELSE log
            /\ IF step.rejected
                   THEN /\ pc' = "done"
                        /\ response' = ValidationError
                        /\ UNCHANGED <<projectId, img, vid, txt>>
                   ELSE /\ pc' = "waiting"
                        /\ projectId' = pid
                        /\ img' = ImageStart(req, pid)
                        /\ vid' = VideoStart(req, pid)
                        /\ txt' = TextStart(req)
                        /\ UNCHANGED response
    /\ UNCHANGED <<s3, arrived, results, policy, calls, home, sim, flow>>

SettleAfterReturn(c, task) ==
    arrived' = IF Settled(task) THEN Append(arrived, c) ELSE arrived

\* A promise that settles while awaitAll is waiting is recorded in settle
\* order; one that settles after awaitAll returned is not.
Settle(c, task) ==
    arrived' = IF pc = "waiting" /\ Settled(task) THEN Append(arrived, c) ELSE arrived

\* Every run generateImages can make from each state it is invoked in.
ImageRuns ==
    [t \in {ImageStart(req, pid) : req \in Requests, pid \in ProjectIds} |->
        {generateImages(t, exits) : exits \in ImageExitSeqs[ImageCount * Len(t.platforms)]}]

\* Every run generateText can make from each state it is invoked in.
TextRuns ==
    [t \in {TextStart(req) : req \in Requests} |->
        {generateText(t, ds) : ds \in TextDrawSeqs[Len(t.platforms)]}]

\* The Image Generator Lambda runs generateImages.
ImageGenerate ==
    /\ img.st = "running"
    /\ \E run \in ImageRuns[img] :
        /\ img' = run.task
        /\ s3' = s3 \cup run.puts
    /\ Settle("image", img')
    /\ UNCHANGED <<pc, request, projectId, dynamoDB, vid, txt, results, response, log, policy, calls, home, sim, flow>>

\* The Video Generator Lambda runs generateVideo.
VideoGenerate ==
    /\ vid.st = "running"
    /\ \E exit \in {LoopExit(loop) : loop \in VideoLoops}, duration \in VideoDurations :
            /\ vid' = generateVideo(vid, exit, duration)
            /\ s3' = IF exit.exit = "error"
                        THEN s3
                        ELSE s3 \cup {VideoKey(vid.userId, vid.projectId)}
    /\ Settle("video", vid')
    /\ UNCHANGED <<pc, request, projectId, dynamoDB, img, txt, results, response, log, policy, calls, home, sim, flow>>

TextGenerateAbortingSiblings ==
    /\ txt.st = "running"
    /\ \E run \in TextRuns[txt] :
        /\ txt' = run
        /\ img' = IF run.st = "failed" /\ img.st = "running"
                      THEN [st |-> "failed", err |-> "SYSTEM_ERROR", images |-> <<>>]
                      ELSE img
        /\ vid' = IF run.st = "failed" /\ vid.st = "running"
                      THEN [st |-> "failed", err |-> "SYSTEM_ERROR", video |-> None]
                      ELSE vid
    /\ Settle("text", txt')
    /\ UNCHANGED <<pc, request, projectId, dynamoDB, s3, results, response, log, policy, calls, home, sim, flow>>

\* The Text Generator Lambda runs generateText.
TextGenerate ==
    /\ txt.st = "running"
    /\ \E run \in TextRuns[txt] : txt' = run
    /\ Settle("text", txt')
    /\ UNCHANGED <<pc, request, projectId, dynamoDB, s3, img, vid, results, response, log, policy, calls, home, sim, flow>>

FinishRaisesOnWriteFailure ==
    /\ \E updOk \in BOOLEAN :
        LET res == awaitAll(arrived, img, vid, txt)
            resp == BuildResponse(projectId, res, arrived)
        IN  /\ results' = res
            /\ response' = IF updOk
                              THEN resp
                              ELSE [kind |-> "error", code |-> "STORAGE_ERROR", retryable |-> TRUE]
            /\ dynamoDB' = IF updOk
                              THEN updateItem(dynamoDB, projectId, FinalFields(resp))
                              ELSE dynamoDB
            /\ log' = IF updOk THEN log ELSE Append(log, UpdateItemFailed)
    /\ pc' = "done"
    /\ UNCHANGED <<request, projectId, s3, img, vid, txt, arrived, policy, calls, home, sim, flow>>

\* handleContentGeneration from the return of awaitAll to its own return:
\* aggregate, update the project record (updOk: whether the write
\* succeeded; a failed write is logged), return the response.
Finish ==
    /\ \E updOk \in BOOLEAN :
        LET res == awaitAll(arrived, img, vid, txt)
            resp == BuildResponse(projectId, res, arrived)
        IN  /\ results' = res
            /\ response' = resp
            /\ dynamoDB' = IF updOk
                              THEN updateItem(dynamoDB, projectId, FinalFields(resp))
                              ELSE dynamoDB
            /\ log' = IF updOk THEN log ELSE Append(log, UpdateItemFailed)
    /\ pc' = "done"
    /\ UNCHANGED <<request, projectId, s3, img, vid, txt, arrived, policy, calls, home, sim, flow>>

\* awaitAll returns because all three promises settled.
AwaitAllSettled ==
    /\ pc = "waiting"
    /\ Len(arrived) = Len(Components)
    /\ Finish

AwaitAllNeverTimesOut ==
    /\ pc = "waiting"
    /\ Len(arrived) > Len(Components)
    /\ Finish

\* awaitAll returns because the timeout elapsed with a promise unsettled.
AwaitAllTimeout ==
    /\ pc = "waiting"
    /\ Len(arrived) < Len(Components)
    /\ Finish

Next ==
    \/ \E req \in Requests : HandleContentGeneration(req)
    \/ ImageGenerate
    \/ VideoGenerate
    \/ TextGenerate
    \/ AwaitAllSettled
    \/ AwaitAllTimeout

Spec == Init /\ [][Next]_vars

-----------------------------------------------------------------------------
\* The retry loops run on their own, one invokeModel call (one call of
\* operation) per step, on every sequence of outcomes.

\* One pass of "for attempt in range(maxRetries)" in retryWithBackoff, with
\* attempt kept in retries:
\*   return operation()
\*   catch RetryableError: if attempt >= maxRetries - 1: throw error;
\*                         backoffMs = (2 ** attempt) * 100; sleep(backoffMs)
\*   catch NonRetryableError: throw error
retryWithBackoffStep(loop, outcome) ==
    LET called == [loop EXCEPT !.calls = loop.calls + 1]
    IN  IF outcome = "ok"
            THEN [called EXCEPT !.exit = "break"]
        ELSE IF outcome \in RetryableErrors
            THEN IF loop.retries >= MaxRetries - 1
                    THEN [called EXCEPT !.err = outcome, !.exit = "error"]
                    ELSE [called EXCEPT
                            !.retries = loop.retries + 1,
                            !.err = outcome,
                            !.sleeps = Append(loop.sleeps, (2 ^ loop.retries) * BackoffBaseMs)]
        ELSE [called EXCEPT !.err = outcome, !.exit = "error"]

RetryKinds == {"generateImages", "generateVideo", "callClaude", "retryWithBackoff"}

\* A retry loop about to start, with the outcomes its calls will have and
\* those its calls have had.
PolicyStarts == [kind : RetryKinds, outs : OutcomeSeqs, seen : {<<>>}, loop : {LoopStart}]

RetryInit ==
    /\ policy \in PolicyStarts
    /\ calls = NoCalls
    /\ home = HomeStart
    /\ sim = NoSim
    /\ flow = NoFlow
    /\ pc = "idle"
    /\ request = NoRequest
    /\ projectId = None
    /\ dynamoDB = EmptyDB
    /\ s3 = {}
    /\ img = IdleTask
    /\ vid = IdleTask
    /\ txt = IdleTask
    /\ arrived = <<>>
    /\ results = NoResults
    /\ response = NoResponse
    /\ log = <<>>

\* The loop of the given kind is running and has a call to make.
CanCall(kind) ==
    /\ policy.kind = kind
    /\ policy.loop.exit = "running"
    /\ policy.outs # <<>>

\* The call is made and its outcome handled by the loop.
Called(loop) ==
    /\ policy' = [policy EXCEPT !.loop = loop,
                                !.seen = Append(policy.seen, Head(policy.outs)),
                                !.outs = Tail(policy.outs)]
    /\ UNCHANGED <<requestVars, calls, home, sim, flow>>

\* One pass of the retry loop of generateImages.
ImageRetry ==
    /\ CanCall("generateImages")
    /\ Called(ImageLoopStep(policy.loop, Head(policy.outs)))

\* One pass of the retry loop of generateVideo.
VideoRetry ==
    /\ CanCall("generateVideo")
    /\ Called(RetryLoopStep(policy.loop, Head(policy.outs)))

\* One pass of the retry loop of callClaude.
ClaudeRetry ==
    /\ CanCall("callClaude")
    /\ Called(RetryLoopStep(policy.loop, Head(policy.outs)))

\* One pass of the loop of retryWithBackoff.
RetryWithBackoff ==
    /\ CanCall("retryWithBackoff")
    /\ Called(retryWithBackoffStep(policy.loop, Head(policy.outs)))

RetryNext ==
    \/ ImageRetry
    \/ VideoRetry
    \/ ClaudeRetry
    \/ RetryWithBackoff

RetrySpec == RetryInit /\ [][RetryNext]_vars

\* awaitAll returns: when every promise has settled, or when its 30-second
\* timer fires. Nothing is assumed of the generators.
\* The requests are those with the longest rejected prompt or the shortest
\* accepted one (what a prompt holds beyond its length is used nowhere) and
\* with at most one platform.
LiveRequests ==
    {req \in Requests :
        /\ Len(req.prompt) \in {MinPromptLength - 1, MinPromptLength}
        /\ Len(req.platforms) <= 1}

LiveNext ==
    \/ \E req \in LiveRequests : HandleContentGeneration(req)
    \/ ImageGenerate
    \/ VideoGenerate
    \/ TextGenerate
    \/ AwaitAllSettled
    \/ AwaitAllTimeout

LiveSpec ==
    /\ Init /\ [][LiveNext]_vars
    /\ WF_vars(AwaitAllSettled)
    /\ WF_vars(AwaitAllTimeout)

-----------------------------------------------------------------------------
\* The aggregation of handleContentGeneration (results into response) applied
\* on its own, twice, to what awaitAll returned.

\* The requests that pass validation, with at most one platform.
CombineRequests == {req \in LiveRequests : validatePrompt(req.prompt).valid}

\* The orders in which some of the three promises settled before awaitAll
\* returned.
SettleOrders ==
    {order \in SeqsUpTo(Range(Components), Len(Components)) :
        \A j, k \in 1..Len(order) : j # k => order[j] # order[k]}

\* handleContentGeneration at the return of awaitAll: the project record put,
\* every promise in arrived settled with one of the outcomes of its
\* generator, the others still running.
CombineInit ==
    /\ policy = NoPolicy
    /\ calls = NoCalls
    /\ home = HomeStart
    /\ sim = NoSim
    /\ flow = NoFlow
    /\ pc = "combine"
    /\ request \in CombineRequests
    /\ projectId \in ProjectIds
    /\ dynamoDB = putItem(EmptyDB, NewProject(request, projectId))
    /\ arrived \in SettleOrders
    /\ \E run \in ImageRuns[ImageStart(request, projectId)],
          exit \in {LoopExit(loop) : loop \in VideoLoops},
          duration \in VideoDurations :
        /\ img = IF "image" \in Range(arrived)
                     THEN run.task
                     ELSE ImageStart(request, projectId)
        /\ vid = IF "video" \in Range(arrived)
                     THEN generateVideo(VideoStart(request, projectId), exit, duration)
                     ELSE VideoStart(request, projectId)
        /\ s3 = (IF "image" \in Range(arrived) THEN run.puts ELSE {})
                \cup (IF "video" \in Range(arrived) /\ exit.exit # "error"
                          THEN {VideoKey(request.userId, projectId)}
                          ELSE {})
    /\ \E run \in TextRuns[TextStart(request)] :
        txt = IF "text" \in Range(arrived) THEN run ELSE TextStart(request)
    /\ results = awaitAll(arrived, img, vid, txt)
    /\ response = NoResponse
    /\ log = <<>>

CombineAndPersist ==
    /\ pc \in {"combine", "combined once"}
    /\ response' = BuildResponse(projectId, results, arrived)
    /\ dynamoDB' = updateItem(dynamoDB, projectId, FinalFields(response'))
    /\ pc' = IF pc = "combine" THEN "combined once" ELSE "combined twice"
    /\ UNCHANGED <<request, projectId, s3, img, vid, txt, arrived, results, log, policy, calls, home, sim, flow>>

\* response = { projectId, images, videos, captions, hashtags,
\*              status: determineStatus(results), errors: collectErrors(results) }
\* evaluated on results: the first time, and once more on the same results.
Combine ==
    /\ pc \in {"combine", "combined once"}
    /\ response' = BuildResponse(projectId, results, arrived)
    /\ pc' = IF pc = "combine" THEN "combined once" ELSE "combined twice"
    /\ UNCHANGED <<request, projectId, dynamoDB, s3, img, vid, txt, arrived, results, log, policy, calls, home, sim, flow>>

CombineNext == Combine

CombineSpec == CombineInit /\ [][CombineNext]_vars

-----------------------------------------------------------------------------
\* Two handleContentGeneration calls running concurrently on one Projects
\* table, each followed through its accesses to the table: generateUUID,
\* putItem, updateItem. The generators write to S3 only and are left out;
\* awaitAll is taken to return at its timeout.

UUIDs == {"p1", "p2"}

generateUUIDReused(issued) == UUIDs

\* projectId = generateUUID(): an identifier that no earlier call returned.
generateUUID(issued) == UUIDs \ issued

\* The identifiers generateUUID has returned.
Issued == {calls[c].projectId : c \in Callers} \ {None}

\* A write to the Projects table that a call issued.
TableWrite(op, key) == [op |-> op, key |-> key]

ConcurrentInit ==
    /\ calls = NoCalls
    /\ home = HomeStart
    /\ sim = NoSim
    /\ flow = NoFlow
    /\ policy = NoPolicy
    /\ pc = "idle"
    /\ request = NoRequest
    /\ projectId = None
    /\ dynamoDB = EmptyDB
    /\ s3 = {}
    /\ img = IdleTask
    /\ vid = IdleTask
    /\ txt = IdleTask
    /\ arrived = <<>>
    /\ results = NoResults
    /\ response = NoResponse
    /\ log = <<>>

\* Call c of handleContentGeneration(req) up to generateUUID: a prompt
\* shorter than 3 characters returns the error.
Begin(c, req) ==
    /\ calls[c].pc = "idle"
    /\ IF ~validatePrompt(req.prompt).valid
           THEN calls' = [calls EXCEPT ![c] = [NoCall EXCEPT !.pc = "done", !.request = req]]
           ELSE \E pid \in generateUUID(Issued) :
                    calls' = [calls EXCEPT ![c] =
                                [pc |-> "create", request |-> req,
                                 projectId |-> pid, writes |-> <<>>]]
    /\ UNCHANGED <<requestVars, policy, home, sim, flow>>

\* Call c puts its project record and invokes the generators.
CreateProject(c) ==
    /\ calls[c].pc = "create"
    /\ \E putOk \in BOOLEAN :
        LET project == NewProject(calls[c].request, calls[c].projectId)
        IN  /\ dynamoDB' = IF putOk THEN putItem(dynamoDB, project) ELSE dynamoDB
            /\ calls' = [calls EXCEPT
                            ![c].pc = "waiting",
                            ![c].writes = Append(@, TableWrite("putItem", project.projectId))]
    /\ UNCHANGED <<pc, request, projectId, s3, img, vid, txt, arrived, results, response, log, policy, home, sim, flow>>

\* Call c aggregates, updates its project record and returns.
FinalizeProject(c) ==
    /\ calls[c].pc = "waiting"
    /\ \E updOk \in BOOLEAN :
        LET res == awaitAll(<<>>, IdleTask, IdleTask, IdleTask)
            resp == BuildResponse(calls[c].projectId, res, <<>>)
        IN  /\ dynamoDB' = IF updOk
                              THEN updateItem(dynamoDB, calls[c].projectId, FinalFields(resp))
                              ELSE dynamoDB
            /\ calls' = [calls EXCEPT
                            ![c].pc = "done",
                            ![c].writes = Append(@, TableWrite("updateItem", calls[c].projectId))]
    /\ UNCHANGED <<pc, request, projectId, s3, img, vid, txt, arrived, results, response, log, policy, home, sim, flow>>

ConcurrentNext ==
    \/ \E c \in Callers, req \in Requests : Begin(c, req)
    \/ \E c \in Callers : CreateProject(c)
    \/ \E c \in Callers : FinalizeProject(c)

ConcurrentSpec == ConcurrentInit /\ [][ConcurrentNext]_vars

-----------------------------------------------------------------------------
\* The dashboard (Home in page.tsx): the topic input, the business type
\* select, the Generate button and handleGenerate. A click runs
\* handleGenerate up to its await and React renders before the next event;
\* the statements after the await run when the fetch settles.

MaxTopicLen == 3
MaxFetches == 2

TopicChars == {"a", " "}
Topics == SeqsUpTo(TopicChars, MaxTopicLen)
BusinessTypes == {"Retail", "Restaurant", "Service"}

\* topic.trim(): the topic without its leading and trailing white space.
RECURSIVE trimStart(_)
trimStart(topic) ==
    IF topic # <<>> /\ Head(topic) = " " THEN trimStart(Tail(topic)) ELSE topic

RECURSIVE trimEnd(_)
trimEnd(topic) ==
    IF topic # <<>> /\ topic[Len(topic)] = " "
        THEN trimEnd(SubSeq(topic, 1, Len(topic) - 1))
        ELSE topic

trim(topic) == trimEnd(trimStart(topic))

\* How the fetch of /api/generate and response.json() can settle: a
\* response with ok set and data.result, a response with ok unset and
\* data.error present or absent, or an exception, an Error or not.
FetchReplies ==
    {[kind |-> "ok", text |-> "campaign"],
     [kind |-> "not ok", text |-> "Rate limit exceeded"],
     [kind |-> "not ok", text |-> ""],
     [kind |-> "threw Error", text |-> "Failed to fetch"],
     [kind |-> "threw", text |-> ""]}

\* The message of the error caught at catch (err).
CaughtMessage(reply) ==
    IF reply.kind = "not ok"
        THEN IF reply.text # "" THEN reply.text ELSE "Failed to generate campaign"
    ELSE IF reply.kind = "threw Error" THEN reply.text
    ELSE "An error occurred"

\* handleGenerate up to the await of fetch: a blank topic sets the error
\* and returns; otherwise setLoading(true), setError(''), setResult('') and
\* the POST with body { topic, businessType }.
handleGenerate(h) ==
    IF trim(h.topic) = <<>>
        THEN [h EXCEPT !.error = "Please enter a campaign topic"]
        ELSE [h EXCEPT
                !.loading = TRUE,
                !.error = "",
                !.result = "",
                !.made = h.made + 1,
                !.fetches = h.fetches \cup
                    {[id |-> h.made + 1, topic |-> h.topic, businessType |-> h.businessType]}]

afterFetchWithoutFinally(h, f, reply) ==
    IF reply.kind = "ok"
        THEN [h EXCEPT !.fetches = h.fetches \ {f}, !.applied = f.id,
                       !.result = reply.text, !.loading = FALSE]
        ELSE [h EXCEPT !.fetches = h.fetches \ {f}, !.applied = f.id,
                       !.error = CaughtMessage(reply)]

\* handleGenerate from the await on, for fetch f settled with reply:
\* setResult(data.result), or setError(message) in catch; setLoading(false)
\* in finally.
afterFetch(h, f, reply) ==
    LET settled == [h EXCEPT !.fetches = h.fetches \ {f}, !.applied = f.id]
        handled == IF reply.kind = "ok"
                       THEN [settled EXCEPT !.result = reply.text]
                       ELSE [settled EXCEPT !.error = CaughtMessage(reply)]
    IN  [handled EXCEPT !.loading = FALSE]

\* onChange of the topic input: setTopic(e.target.value)
SetTopic(topic) ==
    /\ home' = [home EXCEPT !.topic = topic]
    /\ UNCHANGED <<requestVars, policy, calls, sim, flow>>

\* onChange of the select: setBusinessType(e.target.value)
SetBusinessType(businessType) ==
    /\ home' = [home EXCEPT !.businessType = businessType]
    /\ UNCHANGED <<requestVars, policy, calls, sim, flow>>

ClickGenerateNeverDisabled ==
    /\ home.made < MaxFetches
    /\ home' = handleGenerate(home)
    /\ UNCHANGED <<requestVars, policy, calls, sim, flow>>

\* onClick of the Generate button, which is disabled while loading.
ClickGenerate ==
    /\ ~home.loading
    /\ home.made < MaxFetches
    /\ home' = handleGenerate(home)
    /\ UNCHANGED <<requestVars, policy, calls, sim, flow>>

\* A fetch in flight settles and handleGenerate runs to its end.
FetchSettles ==
    /\ \E f \in home.fetches, reply \in FetchReplies : home' = afterFetch(home, f, reply)
    /\ UNCHANGED <<requestVars, policy, calls, sim, flow>>

HomeNext ==
    \/ \E topic \in Topics : SetTopic(topic)
    \/ \E businessType \in BusinessTypes : SetBusinessType(businessType)
    \/ ClickGenerate
    \/ FetchSettles

HomeSpec == Init /\ [][HomeNext]_vars

-----------------------------------------------------------------------------
\* Simulation mode: generateMarketingCopy(topic, businessType) with its
\* 2-second timer. Time is counted in steps of TickMs from the call.

SimulatedDelayMs == 2000
TickMs == 1000
MaxElapsedMs == 3000

\* Whether AWS credentials are configured where the function runs.
Credentials == {None, "configured"}

\* topic.replace(/\s+/g, '')
removeWhitespace(topic) == SelectSeq(topic, LAMBDA char : char # " ")

\* The template string returned: the greeting with businessType, the
\* campaign lines with topic, the hashtag line with the topic without white
\* space.
CampaignText(topic, businessType) ==
    [owner |-> businessType, campaign |-> topic, hashtag |-> removeWhitespace(topic)]

\* generateMarketingCopy is called and awaits
\* new Promise(resolve => setTimeout(resolve, 2000)).
CallGenerateMarketingCopy(topic, businessType, credentials) ==
    /\ sim.pc = "idle"
    /\ sim' = [pc |-> "sleeping", topic |-> topic, businessType |-> businessType,
               credentials |-> credentials, elapsed |-> 0, result |-> None]
    /\ UNCHANGED <<requestVars, policy, calls, home, flow>>

\* Time passes while the timer is pending.
SimTick ==
    /\ sim.pc = "sleeping"
    /\ sim.elapsed + TickMs <= MaxElapsedMs
    /\ sim' = [sim EXCEPT !.elapsed = sim.elapsed + TickMs]
    /\ UNCHANGED <<requestVars, policy, calls, home, flow>>

TimerFiresAtOnce ==
    /\ sim.pc = "sleeping"
    /\ sim' = [sim EXCEPT !.pc = "resolved",
                          !.result = CampaignText(sim.topic, sim.businessType)]
    /\ UNCHANGED <<requestVars, policy, calls, home, flow>>

\* The timer fires, no sooner than its delay; the function builds the
\* response and returns it.
TimerFires ==
    /\ sim.pc = "sleeping"
    /\ sim.elapsed >= SimulatedDelayMs
    /\ sim' = [sim EXCEPT !.pc = "resolved",
                          !.result = CampaignText(sim.topic, sim.businessType)]
    /\ UNCHANGED <<requestVars, policy, calls, home, flow>>

SimNext ==
    \/ \E topic \in Topics, businessType \in BusinessTypes, credentials \in Credentials :
            CallGenerateMarketingCopy(topic, businessType, credentials)
    \/ SimTick
    \/ TimerFires

\* The event loop runs: time passes and a timer that is due fires.
SimSpec ==
    /\ Init /\ [][SimNext]_vars
    /\ WF_vars(SimTick)
    /\ WF_vars(TimerFires)

-----------------------------------------------------------------------------
\* One handleContentGeneration call followed statement by statement, with
\* the order in which its statements and the settling of its three promises
\* occurred kept in flow.trace.

\* A statement executed, or the promise of component c settling.
Step(name, c) == [step |-> name, c |-> c]

\* The statement at flow.pc is executed and control moves to next.
FlowStep(name, next) ==
    [flow EXCEPT !.pc = next, !.trace = Append(flow.trace, Step(name, None))]

\* if request.prompt.length < 3: return error("Prompt too short")
FlowValidate(req) ==
    /\ flow.pc = "idle"
    /\ flow' = IF validatePrompt(req.prompt).valid
                   THEN [pc |-> "putItem", trace |-> <<>>, started |-> {}, settled |-> {},
                         timedOut |-> {}, created |-> None, finalized |-> None]
                   ELSE [pc |-> "done", trace |-> <<Step("return error", None)>>,
                         started |-> {}, settled |-> {}, timedOut |-> {},
                         created |-> None, finalized |-> None]
    /\ UNCHANGED <<requestVars, policy, calls, home, sim>>

\* dynamoDB.putItem(project), which may fail.
FlowPutItem ==
    /\ flow.pc = "putItem"
    /\ \E putOk \in BOOLEAN :
        flow' = [FlowStep("putItem", "invoke") EXCEPT
                    !.created = IF putOk THEN "written" ELSE "failed"]
    /\ UNCHANGED <<requestVars, policy, calls, home, sim>>

\* imagePromise, videoPromise, textPromise = invokeAsync(...), in this order.
FlowInvoke ==
    /\ flow.pc = "invoke"
    /\ LET c == Components[Cardinality(flow.started) + 1]
       IN  flow' = [flow EXCEPT
                        !.started = flow.started \cup {c},
                        !.trace = Append(flow.trace, Step("invokeAsync", c)),
                        !.pc = IF Cardinality(flow.started) + 1 = Len(Components)
                                  THEN "awaitAll" ELSE "invoke"]
    /\ UNCHANGED <<requestVars, policy, calls, home, sim>>

\* The generator of component c returns or fails: its promise settles.
FlowSettle(c) ==
    /\ flow.pc # "idle"
    /\ c \in flow.started \ flow.settled
    /\ flow' = [flow EXCEPT !.settled = flow.settled \cup {c},
                            !.trace = Append(flow.trace, Step("settled", c))]
    /\ UNCHANGED <<requestVars, policy, calls, home, sim>>

\* results = awaitAll(..., timeout=30s) returns: every promise has settled,
\* or the timeout elapsed and the unsettled ones are timed out.
FlowAwaitAll ==
    /\ flow.pc = "awaitAll"
    /\ flow' = [FlowStep("awaitAll", "aggregate") EXCEPT
                    !.timedOut = flow.started \ flow.settled]
    /\ UNCHANGED <<requestVars, policy, calls, home, sim>>

FlowAggregateWithoutWaiting ==
    /\ flow.pc \in {"awaitAll", "aggregate"}
    /\ flow' = FlowStep("aggregate", "updateItem")
    /\ UNCHANGED <<requestVars, policy, calls, home, sim>>

\* response = { ..., status: determineStatus(results), errors: collectErrors(results) }
FlowAggregate ==
    /\ flow.pc = "aggregate"
    /\ flow' = FlowStep("aggregate", "updateItem")
    /\ UNCHANGED <<requestVars, policy, calls, home, sim>>

\* dynamoDB.updateItem(projectId, {status, assets, completedAt}), which may fail.
FlowUpdateItem ==
    /\ flow.pc = "updateItem"
    /\ \E updOk \in BOOLEAN :
        flow' = [FlowStep("updateItem", "return") EXCEPT
                    !.finalized = IF updOk THEN "written" ELSE "failed"]
    /\ UNCHANGED <<requestVars, policy, calls, home, sim>>

\* return response
FlowReturn ==
    /\ flow.pc = "return"
    /\ flow' = FlowStep("return", "done")
    /\ UNCHANGED <<requestVars, policy, calls, home, sim>>

FlowNext ==
    \/ \E req \in LiveRequests : FlowValidate(req)
    \/ FlowPutItem
    \/ FlowInvoke
    \/ \E c \in Range(Components) : FlowSettle(c)
    \/ FlowAwaitAll
    \/ FlowAggregate
    \/ FlowUpdateItem
    \/ FlowReturn

FlowSpec == Init /\ [][FlowNext]_vars

-----------------------------------------------------------------------------
\* Properties.

\* The invocation of component c.
TaskOf(c) == IF c = "image" THEN img ELSE IF c = "video" THEN vid ELSE txt

\* Component c returned its result before awaitAll returned.
SucceededInTime(c) == c \in Range(arrived) /\ TaskOf(c).st = "done"

\* handleContentGeneration returned an aggregated response.
Returned == pc = "done" /\ response.kind = "result"

\* handleContentGeneration returned the validation error.
Rejected == pc = "done" /\ response.kind = "error" /\ response.code = "VALIDATION_ERROR"

NoSideEffects ==
    /\ DOMAIN dynamoDB = {}
    /\ s3 = {}
    /\ img.st = "idle" /\ vid.st = "idle" /\ txt.st = "idle"
    /\ arrived = <<>>

C2_RejectHasNoSideEffects == Rejected => NoSideEffects

\* The 2-character prompt was rejected.
C2_Witness == Rejected /\ Len(request.prompt) = 2 /\ NoSideEffects

\* C3: a request with an empty platforms array is rejected with
\* VALIDATION_ERROR, no project is created and no generator runs.
C3_EmptyPlatformsRejected ==
    (pc # "idle" /\ request.platforms = <<>>) => (Rejected /\ NoSideEffects)

\* C4: the status of the response is "complete" exactly when all three
\* generators succeeded.
C4_CompleteIffAllSucceeded ==
    Returned =>
        (response.status = "complete" <=> \A c \in Range(Components) : SucceededInTime(c))

\* A complete response with the three images of one platform.
C4_Witness ==
    /\ Returned
    /\ response.status = "complete"
    /\ request.platforms = <<"instagram">>
    /\ Len(response.images) = 3

\* C5: the status of the response is "partial" exactly when at least one
\* generator succeeded and at least one failed.
C5_PartialIffMixed ==
    Returned =>
        (response.status = "partial" <=>
            /\ \E c \in Range(Components) : SucceededInTime(c)
            /\ \E c \in Range(Components) : ~SucceededInTime(c))

\* C6: the status of the response is "failed" exactly when all three
\* generators failed (a timed-out one counting as failed); with one
\* successful generator the status is never "failed".
C6_FailedIffAllFailed ==
    Returned =>
        (response.status = "failed" <=> \A c \in Range(Components) : ~SucceededInTime(c))

\* C7: the errors of the response name exactly the failed components, once
\* each, in the order image, video, text, whatever the settle order was.
C7_ErrorsInFixedOrder ==
    Returned =>
        [k \in 1..Len(response.errors) |-> response.errors[k].component]
            = SelectSeq(Components, LAMBDA c : ~SucceededInTime(c))

\* Text failed first, then video, then image: the settle order is the
\* reverse of the order of the errors.
C7_Witness ==
    /\ Returned
    /\ arrived = <<"text", "video", "image">>
    /\ txt.st = "failed" /\ vid.st = "failed" /\ img.st = "failed"
    /\ Len(response.errors) = 3

\* C8: the assets of the response are exactly those of the generators that
\* succeeded: all the assets of each of them, none for a generator that
\* failed or timed out, even when it completes later.
C8_AssetsOfSucceededOnly ==
    Returned =>
        /\ response.images = IF SucceededInTime("image") THEN img.images ELSE <<>>
        /\ response.videos = IF SucceededInTime("video") THEN <<vid.video>> ELSE <<>>
        /\ response.captions = IF SucceededInTime("text") THEN txt.captions ELSE EmptyDict
        /\ response.hashtags = IF SucceededInTime("text") THEN txt.hashtags ELSE EmptyDict

\* Images and text succeeded and are in the response, the video failed.
C8_Witness ==
    /\ Returned
    /\ SucceededInTime("image") /\ Len(response.images) = 6
    /\ SucceededInTime("text") /\ DOMAIN response.captions = Platforms
    /\ vid.st = "failed" /\ response.videos = <<>>

\* C9: when the video generator has exhausted its retries on a retryable
\* error while images and text succeeded, the response is "partial", has no
\* video, has the error of the video component as its only error, and has
\* the images and the text of the two others.
C9_VideoExhaustedIsPartial ==
    (/\ Returned
     /\ "video" \in Range(arrived) /\ vid.st = "failed" /\ vid.err \in RetryableErrors
     /\ SucceededInTime("image") /\ SucceededInTime("text"))
    => /\ response.status = "partial"
       /\ response.videos = <<>>
       /\ Len(response.errors) = 1
       /\ response.errors[1].component = "video"
       /\ response.images = img.images
       /\ response.captions = txt.captions
       /\ response.hashtags = txt.hashtags

\* The error awaitAll reports for component c, as it appears in the response.
ErrorOf(c) ==
    LET at == {k \in 1..Len(response.errors) : response.errors[k].component = c}
    IN  {response.errors[k].errorCode : k \in at}

\* C10: a generator that had not settled when awaitAll returned is reported
\* failed with TIMEOUT_ERROR, and the response is returned without it; when
\* none had settled the status is "failed" and the errors are three
\* TIMEOUT_ERROR entries for image, video, text in that order.
C10_TimeoutIsFailure ==
    Returned =>
        /\ \A c \in Range(Components) :
              c \notin Range(arrived) => ErrorOf(c) = {"TIMEOUT_ERROR"}
        /\ arrived = <<>> =>
              /\ response.status = "failed"
              /\ response.errors = << [component |-> "image", errorCode |-> "TIMEOUT_ERROR"],
                                      [component |-> "video", errorCode |-> "TIMEOUT_ERROR"],
                                      [component |-> "text", errorCode |-> "TIMEOUT_ERROR"] >>

\* The response was returned with all three generators still running.
C10_Witness ==
    /\ Returned
    /\ arrived = <<>>
    /\ img.st = "running" /\ vid.st = "running" /\ txt.st = "running"
    /\ response.status = "failed"

\* C11: once handleContentGeneration has returned, a generator that settles
\* late is not taken in: the outcomes recorded as arrived, the results, the
\* response and the project record stay as they were.
C11_LateResultsDiscarded ==
    [][Returned =>
        /\ arrived' = arrived
        /\ results' = results
        /\ response' = response
        /\ dynamoDB' = dynamoDB]_vars

\* generateImages completed with its three images after the response was
\* returned without them.
C11_Witness ==
    /\ Returned
    /\ "image" \notin Range(arrived)
    /\ img.st = "done" /\ Len(img.images) = 3
    /\ response.images = <<>>
    /\ projectId \in DOMAIN dynamoDB /\ dynamoDB[projectId].status = response.status

\* C12: a request with a valid prompt and a platform, once accepted, leads
\* to a returned response with a status, whatever the generators and the
\* writes of the project record do.
C12_HandleReturns ==
    (pc = "waiting" /\ request.platforms # <<>>)
        ~> (Returned /\ response.status \in {"complete", "partial", "failed"})

\* Returned although both writes failed, generateText raised and
\* generateImages never completed.
C12_Witness ==
    /\ Returned
    /\ request.platforms # <<>>
    /\ log = <<PutItemFailed, UpdateItemFailed>>
    /\ txt.st = "failed" /\ txt.err = "SYSTEM_ERROR"
    /\ img.st = "running"

\* The entries of the errors of the response that name component c.
ErrorsOf(c) == {k \in 1..Len(response.errors) : response.errors[k].component = c}

\* C13: a generator that fails, by returning an error or by raising, leaves
\* the two other invocations as they are, and they can still run; in the
\* response each generator has exactly one outcome: its success, or one
\* error that names it.
C13_FailureIsIsolated ==
    /\ [][\A c \in Range(Components) :
            (TaskOf(c).st = "running" /\ TaskOf(c)'.st = "failed")
                => \A d \in Range(Components) \ {c} : TaskOf(d)' = TaskOf(d)]_vars
    /\ [](\A c \in Range(Components) :
            TaskOf(c).st = "failed" =>
                /\ img.st = "running" => ENABLED ImageGenerate
                /\ vid.st = "running" => ENABLED VideoGenerate
                /\ txt.st = "running" => ENABLED TextGenerate)
    /\ [](Returned =>
            \A c \in Range(Components) :
                Cardinality(ErrorsOf(c)) = IF SucceededInTime(c) THEN 0 ELSE 1)

\* generateText raised first; the images and the video were generated
\* after that and are in the response, with the one error of text.
C13_Witness ==
    /\ Returned
    /\ arrived = <<"text", "image", "video">>
    /\ txt.st = "failed" /\ txt.err = "SYSTEM_ERROR"
    /\ img.st = "done" /\ vid.st = "done"
    /\ Len(response.images) = 3 /\ Len(response.videos) = 1
    /\ Len(response.errors) = 1 /\ response.errors[1].component = "text"

\* status: 'complete' | 'partial' | 'failed', the statuses other than 'generating'.
TerminalStatuses == {"complete", "partial", "failed"}

\* C14: a project record comes into the store with status "generating";
\* its status changes only once, from "generating" to a terminal status;
\* a record with a terminal status never changes again.
C14_SingleTerminalTransition ==
    [][\A pid \in ProjectIds :
        /\ (pid \notin DOMAIN dynamoDB /\ pid \in DOMAIN dynamoDB')
                => dynamoDB'[pid].status = "generating"
        /\ pid \in DOMAIN dynamoDB =>
                /\ pid \in DOMAIN dynamoDB'
                /\ \/ dynamoDB'[pid] = dynamoDB[pid]
                   \/ /\ dynamoDB[pid].status = "generating"
                      /\ dynamoDB'[pid].status \in TerminalStatuses]_vars

\* C15: every project record in the store has completedAt exactly when its
\* status is not "generating".
C15_CompletedAtIffTerminal ==
    \A pid \in DOMAIN dynamoDB :
        ("completedAt" \in DOMAIN dynamoDB[pid]) <=> (dynamoDB[pid].status # "generating")

\* A record created as generating and finalized as partial, with completedAt.
C15_Witness ==
    /\ projectId \in DOMAIN dynamoDB
    /\ "createdAt" \in DOMAIN dynamoDB[projectId]
    /\ "completedAt" \in DOMAIN dynamoDB[projectId]
    /\ dynamoDB[projectId].status = "partial"

\* handleContentGeneration logged the failure of putItem.
CreateWriteFailed == PutItemFailed \in Range(log)
\* handleContentGeneration logged the failure of updateItem.
FinalizeWriteFailed == UpdateItemFailed \in Range(log)

\* The response is the aggregate of the outcomes awaitAll returned.
ResponseIsTheAggregate ==
    /\ Returned
    /\ results = awaitAll(arrived, img, vid, txt)
    /\ response = BuildResponse(projectId, results, arrived)

\* C17: when the write that creates the project record failed, the three
\* generators were started all the same, and the response returned is the
\* aggregate of their outcomes.
C17_CreateFailureProceeds ==
    CreateWriteFailed =>
        /\ pc \in {"waiting", "done"}
        /\ img.st # "idle" /\ vid.st # "idle" /\ txt.st # "idle"
        /\ pc = "done" => ResponseIsTheAggregate

\* The create write failed and the request still ended complete.
C17_Witness ==
    /\ CreateWriteFailed
    /\ Returned
    /\ response.status = "complete"
    /\ Len(response.images) = 3 /\ Len(response.videos) = 1

\* C18: when the write that finalizes the project record failed,
\* handleContentGeneration has returned the aggregated response, not an error.
C18_FinalizeFailureReturns ==
    FinalizeWriteFailed =>
        /\ pc = "done"
        /\ response.kind = "result"
        /\ response.status = determineStatus(results)
        /\ response.errors = collectErrors(results, arrived)
        /\ response.images = ResponseImages(results)
        /\ response.videos = ResponseVideos(results)
        /\ response.captions = ResponseCaptions(results)
        /\ response.hashtags = ResponseHashtags(results)

\* The finalize write failed: the record is still generating while the
\* response returned is partial.
C18_Witness ==
    /\ log = <<UpdateItemFailed>>
    /\ Returned
    /\ response.status = "partial"
    /\ dynamoDB[projectId].status = "generating"

\* C19: after handleContentGeneration returned with both writes done, the
\* store holds under the projectId of the response a record with the userId
\* and the prompt of the request and the status of the response, which is
\* not "generating".
C19_RecordMatchesResponse ==
    (Returned /\ log = <<>>) =>
        /\ response.projectId \in DOMAIN dynamoDB
        /\ LET project == dynamoDB[response.projectId]
           IN  /\ {"userId", "prompt", "status"} \subseteq DOMAIN project
               /\ project.userId = request.userId
               /\ project.prompt = request.prompt
               /\ project.status = response.status
               /\ project.status # "generating"

\* Both writes done for a request that ended complete.
C19_Witness ==
    /\ Returned /\ log = <<>>
    /\ response.status = "complete"
    /\ dynamoDB[response.projectId].status = "complete"
    /\ dynamoDB[response.projectId].prompt = <<"a", "a", "a">>

\* C20: a retry loop calls the operation it wraps at most 3 times, whatever
\* the outcomes of the calls are, and makes no call after it was left.
C20_AtMostThreeCalls ==
    /\ policy.loop.calls <= 3
    /\ policy.loop.exit # "running" => ~ENABLED RetryNext

\* The loop of generateImages was left after its third call, all three rate
\* limited, although the operation had a fourth outcome to give.
C20_Witness ==
    /\ policy.kind = "generateImages"
    /\ policy.loop.calls = 3
    /\ policy.loop.exit = "exhausted"
    /\ policy.outs # <<>>

\* Non-Retryable Errors: authentication failures, invalid input, content policy.
IsTerminalError(outcome) == outcome \in BedrockErrors \ RetryableErrors

\* C21: a call that fails with a terminal error ends the retry loop with
\* that error: no backoff delay is taken and no further call is made,
\* whichever call it is.
C21_TerminalErrorReturnsAtOnce ==
    [][(policy.outs # <<>> /\ policy.loop.exit = "running"
            /\ IsTerminalError(Head(policy.outs)))
        => /\ policy'.loop.exit = "error"
           /\ policy'.loop.err = Head(policy.outs)
           /\ policy'.loop.sleeps = policy.loop.sleeps]_vars

\* The calls made so far all failed with a retryable error.
AllRetryable(outs) == \A k \in 1..Len(outs) : outs[k] \in RetryableErrors

\* The delays of the first k retries: 100 ms, 200 ms, 400 ms.
BackoffSchedule(k) == [n \in 1..k |-> 100 * (2 ^ (n - 1))]

\* C22: after k <= 2 calls that failed with a retryable error the loop
\* goes on, and when the next call succeeds the loop has returned success
\* after k + 1 calls and has taken exactly the first k of the delays
\* 100 ms, 200 ms.
C22_SuccessAfterRetries ==
    LET k == Len(policy.seen) - 1
    IN  /\ (AllRetryable(policy.seen) /\ Len(policy.seen) <= 2)
                => policy.loop.exit = "running"
        /\ (policy.seen # <<>> /\ k <= 2
                /\ AllRetryable(SubSeq(policy.seen, 1, k))
                /\ policy.seen[k + 1] = "ok")
                => /\ policy.loop.exit = "break"
                   /\ policy.loop.calls = k + 1
                   /\ policy.loop.sleeps = BackoffSchedule(k)

\* C23: when the three calls all failed with a retryable error, the loop
\* has returned a failure that carries the error of the third call.
C23_ExhaustedReturnsLastError ==
    (Len(policy.seen) = 3 /\ AllRetryable(policy.seen))
        => /\ policy.loop.exit = "error"
           /\ policy.loop.err = policy.seen[3]

\* C24: while the calls fail with retryable errors, a delay is taken before
\* each retry, and the delay before the n-th retry is 100 * 2^(n-1) ms.
C24_BackoffDelays ==
    AllRetryable(policy.seen) =>
        /\ \A n \in 1..Len(policy.loop.sleeps) :
                policy.loop.sleeps[n] = 100 * (2 ^ (n - 1))
        /\ policy.loop.exit = "running" => Len(policy.loop.sleeps) = Len(policy.seen)

\* The keys generateImages and generateVideo have put, one entry per
\* putObject call: image keys, their thumbnail keys, the video key.
KeysPut ==
    [k \in 1..Len(img.images) |-> img.images[k].s3Key]
    \o [k \in 1..Len(img.images) |-> ThumbnailKey(img.images[k].s3Key)]
    \o (IF vid.st = "done" THEN <<vid.video.s3Key>> ELSE <<>>)

\* C25: for a platforms list of one or two entries, the keys put within the
\* project by a completed generateImages and by generateVideo are pairwise
\* distinct.
C25_KeysPairwiseDistinct ==
    (Len(request.platforms) \in 1..2 /\ img.st = "done")
        => Cardinality(Range(KeysPut)) = Len(KeysPut)

\* A run in which the three generators all succeeded, for a request that
\* names a platform.
SuccessfulFullRun ==
    /\ Returned
    /\ response.status = "complete"
    /\ request.platforms # <<>>

\* C26: the response of a successful full run has exactly 3 image assets.
C26_ExactlyThreeImages ==
    SuccessfulFullRun => Len(response.images) = 3

\* C27: the response of a successful full run has at least one video and,
\* for every requested platform, at least 3 captions and a hashtag set.
C27_VideoAndCaptionsPerPlatform ==
    SuccessfulFullRun =>
        /\ Len(response.videos) >= 1
        /\ \A platform \in Range(request.platforms) :
            /\ platform \in DOMAIN response.captions
            /\ response.captions[platform].kind = "text"
            /\ Len(response.captions[platform].text) >= 3
            /\ platform \in DOMAIN response.hashtags

\* C28: every hashtag set of a response holds only words that start with
\* "#", and as many of them as the constraints of its platform allow.
C28_HashtagSetsWellFormed ==
    Returned =>
        \A platform \in DOMAIN response.hashtags :
            LET tags == response.hashtags[platform]
                constraints == getPlatformConstraints(platform)
            IN  /\ \A k \in 1..Len(tags) : IsHashtagWord(tags[k])
                /\ Len(tags) >= constraints.minHashtags
                /\ Len(tags) <= constraints.maxHashtags

OwnersOf(pid) == {c \in Callers : calls[c].projectId = pid}

C31_FetchOnlyForLongTopic ==
    \A f \in home.fetches : Len(f.topic) >= MinPromptLength

\* C38: loading is true exactly while a fetch is in flight.
C38_LoadingIffInFlight ==
    home.loading <=> home.fetches # {}

C38_Witness ==
    /\ ~home.loading
    /\ home.applied = 1
    /\ home.error = "An error occurred"

\* C39: at most one fetch is in flight, and a result or an error on display
\* that came from a response came from the latest request made.
C39_OneRequestInFlight ==
    /\ Cardinality(home.fetches) <= 1
    /\ \A f \in home.fetches : f.id = home.made
    /\ home.result # "" => home.applied = home.made

C39_Witness ==
    /\ home.made = 2
    /\ home.applied = 2
    /\ home.result # ""

\* C40: the error message and the result are never both non-empty.
C40_ErrorExcludesResult ==
    ~(home.error # "" /\ home.result # "")

\* C32: a call of generateMarketingCopy, with or without credentials, never
\* rejects, resolves only once the 2-second delay has elapsed, with the
\* campaign text of its topic and businessType, and eventually resolves.
C32_SimulationResolves ==
    /\ [](sim.pc \in {"idle", "sleeping", "resolved"})
    /\ [](sim.pc = "resolved"
            => /\ sim.elapsed >= SimulatedDelayMs
               /\ sim.result = CampaignText(sim.topic, sim.businessType))
    /\ [](sim.pc = "sleeping" => sim.result = None)
    /\ (sim.pc = "sleeping" ~> sim.pc = "resolved")

C32_Witness ==
    /\ sim.pc = "resolved"
    /\ sim.credentials = None
    /\ sim.topic = <<"a", " ", "a">>
    /\ sim.result.hashtag = <<"a", "a">>

\* The positions in flow.trace at which a step occurred.
Occurrences(name, c) ==
    {k \in 1..Len(flow.trace) : flow.trace[k] = Step(name, c)}

Occurred(name, c) == Occurrences(name, c) # {}

\* Every occurrence of the first step precedes every occurrence of the
\* second, and the first has occurred.
Precedes(name1, c1, name2, c2) ==
    /\ Occurred(name1, c1)
    /\ \A j \in Occurrences(name1, c1), k \in Occurrences(name2, c2) : j < k

\* C33: within one call, putItem is attempted before any generator is
\* invoked; the aggregation runs only when every generator has settled or
\* been timed out; updateItem is attempted after the aggregation and before
\* the response is returned; each of them at most once.
C33_StepsInOrder ==
    flow.pc # "idle" =>
        /\ \A c \in Range(Components) :
                Occurred("invokeAsync", c) => Precedes("putItem", None, "invokeAsync", c)
        /\ Occurred("aggregate", None) =>
                \A c \in Range(Components) :
                    \/ Precedes("settled", c, "aggregate", None)
                    \/ c \in flow.timedOut
        /\ Occurred("updateItem", None) => Precedes("aggregate", None, "updateItem", None)
        /\ Occurred("return", None) => Precedes("updateItem", None, "return", None)
        /\ \A name \in {"putItem", "aggregate", "updateItem", "return"} :
                Cardinality(Occurrences(name, None)) <= 1

C33_Witness ==
    /\ flow.pc = "done"
    /\ flow.created = "failed"
    /\ flow.finalized = "written"
    /\ flow.timedOut = {"video"}
    /\ Precedes("return", None, "settled", "video")

\* C34: an image is stored only when its generation call returned one, and
\* a failed generateVideo has put nothing.
C34_PutOnlyAfterGeneration ==
    /\ (img.st = "done" /\ img.images # <<>>) => img.imageData = "set"
    /\ vid.st = "failed" => VideoKey(request.userId, projectId) \notin s3

\* C35: a text component that succeeded has no empty hashtag set; empty
\* content makes the component fail and appear in the errors.
C35_EmptyContentIsFailure ==
    Returned =>
        \A platform \in DOMAIN response.hashtags :
            response.hashtags[platform] = <<>>
                => /\ ~results.text.success
                   /\ \E k \in 1..Len(response.errors) : response.errors[k].component = "text"

\* C36: in a response to a valid request, errors is empty exactly when the
\* status is complete and has three entries exactly when it is failed.
C36_ErrorCountMatchesStatus ==
    Returned =>
        /\ response.errors = <<>> <=> response.status = "complete"
        /\ Len(response.errors) = Len(Components) <=> response.status = "failed"

\* C37: a retry loop that fails on its last permitted attempt has slept one
\* time fewer than it has called the operation.
C37_NoSleepAfterLastAttempt ==
    (policy.loop.exit # "running" /\ Len(policy.seen) = MaxRetries /\ AllRetryable(policy.seen))
        => Len(policy.loop.sleeps) = policy.loop.calls - 1

====
